---- MODULE Spec2Model ----
(***************************************************************************)
(* HearItFresh, src/app/lib/spotify.ts: the playlist curation operations   *)
(* createPlayList, addTracksToPlayList, getArtistsAlbums, getTracks and    *)
(* removeTracksFromPlaylists, each an async function that suspends at its  *)
(* catalog (spotifyApi) calls.  One invocation is modelled per behaviour:  *)
(* an entry action runs the function up to its first await, and one        *)
(* resolve / reject action per await runs it on to the next await or to    *)
(* its return.                                                             *)
(*                                                                         *)
(* Names (album titles, track names, blacklisted words) are sequences of   *)
(* one-character strings, so that toLowerCase and includes are computed.   *)
(***************************************************************************)
EXTENDS Integers, Sequences, FiniteSets, TLC

VARIABLES
    pc,          \* "idle", the catalog call awaited, or "done"
    op,          \* the function invoked
    args,        \* its arguments
    calls,       \* the catalog requests sent so far, in order
    outstanding, \* requests sent and not yet settled
    responses,   \* what the resolved requests resolved with, in order
    rejected,    \* what the rejected request rejected with
    result,      \* the value the function returned
    consoleLog,  \* the arguments of the console.error calls
    maxAlbums,   \* getArtistsAlbums: maxAlbums
    subArrays,   \* getTracks: subArrays
    idx,         \* getTracks: the position of the for..of loop in subArrays
    tracks       \* getTracks: tracks

vars == <<pc, op, args, calls, outstanding, responses, rejected, result,
          consoleLog, maxAlbums, subArrays, idx, tracks>>

-----------------------------------------------------------------------------
(* Bounds of the model *)

\* most album objects in one getAlbums response
MaxRespAlbums == 2
\* most batches an album-id list given to getTracks splits into
MaxBatches == 2
\* most albums in one getArtistAlbums response (the request asks for 10)
MaxArtistAlbums == 4

-----------------------------------------------------------------------------
(* Strings: String.prototype.toLowerCase and String.prototype.includes *)

UpperCaseLetters ==
    <<"A","B","C","D","E","F","G","H","I","J","K","L","M",
      "N","O","P","Q","R","S","T","U","V","W","X","Y","Z">>

LowerCaseLetters ==
    <<"a","b","c","d","e","f","g","h","i","j","k","l","m",
      "n","o","p","q","r","s","t","u","v","w","x","y","z">>

\* upper-case letter |-> its lower-case letter
LowerCaseOf ==
    [c \in {UpperCaseLetters[i] : i \in 1..26} |->
        LowerCaseLetters[CHOOSE i \in 1..26 : UpperCaseLetters[i] = c]]

\* toLowerCase on one character: letters A-Z change, all else stays
ToLowerChar(c) == IF c \in DOMAIN LowerCaseOf THEN LowerCaseOf[c] ELSE c

\* were the name compared as written, without toLowerCase
ToLowerCaseOmitted(s) == s

\* name.toLowerCase()
ToLowerCase(s) == [i \in 1..Len(s) |-> ToLowerChar(s[i])]

\* s.includes(word)
Includes(s, word) ==
    \E i \in 0..(Len(s) - Len(word)) :
        \A j \in 1..Len(word) : s[i + j] = word[j]

\* the blacklistedWords array literal of getArtistsAlbums
AlbumBlacklistedWords ==
    << <<"r","e","m","i","x">>,
       <<"m","i","x">>,
       <<"e","d","i","t">>,
       <<"r","a","d","i","o">>,
       <<"-"," ","l","i","v","e">>,
       <<" ","v","e","r",".">>,
       <<"l","i","v","e","-">>,
       <<"v","e","r","s","i","o","n">>,
       <<"t","o","u","r">>,
       <<"l","i","v","e">>,
       <<"e","v","e","n","t">>,
       <<"c","o","n","c","e","r","t">>,
       <<"t","o","u","r">> >>

\* the blacklistedWords array literal of getTracks
TrackBlacklistedWords ==
    << <<"r","e","m","i","x">>,
       <<"m","i","x">>,
       <<"e","d","i","t">>,
       <<"r","a","d","i","o">>,
       <<"-"," ","l","i","v","e">>,
       <<" ","v","e","r",".">>,
       <<"l","i","v","e","-">>,
       <<"v","e","r","s","i","o","n">>,
       <<"t","o","u","r">>,
       <<"l","i","v","e">>,
       <<"e","v","e","n","t">>,
       <<"c","o","n","c","e","r","t">>,
       <<"t","o","u","r">> >>

\* blacklistedWords.some((word) => trackName.includes(word)), on an album title
AlbumIsBlacklisted(name) ==
    \E w \in 1..Len(AlbumBlacklistedWords) :
        Includes(ToLowerCase(name), AlbumBlacklistedWords[w])

\* blacklistedWords.some((word) => trackName.includes(word)), on a track name
TrackIsBlacklisted(name) ==
    \E w \in 1..Len(TrackBlacklistedWords) :
        Includes(ToLowerCase(name), TrackBlacklistedWords[w])

\* the repetition loop, were it to compare the lower-cased names
IsRepetitionIgnoringCase(self, index) ==
    \E i \in 1..(index - 1) :
        ToLowerCase(self[i].name) = ToLowerCase(self[index].name)

\* the repetition loop: some self[i], i < index, has exactly this name
IsRepetition(self, index) ==
    \E i \in 1..(index - 1) : self[i].name = self[index].name

\* the callback of subTracks.filter: TRUE when self[index] is kept
KeepTrack(self, index) ==
    /\ ~TrackIsBlacklisted(self[index].name)
    /\ ~IsRepetition(self, index)

\* Array.prototype.filter: the kept elements, in index order
RECURSIVE FilterUpTo(_, _)
FilterUpTo(self, n) ==
    IF n = 0 THEN <<>>
    ELSE IF KeepTrack(self, n)
         THEN Append(FilterUpTo(self, n - 1), self[n])
         ELSE FilterUpTo(self, n - 1)

FilterTracks(self) == FilterUpTo(self, Len(self))

\* Array.prototype.flat (depth 1) on an array of arrays
RECURSIVE Flat(_)
Flat(ss) == IF ss = <<>> THEN <<>> ELSE Head(ss) \o Flat(Tail(ss))

\* the two forEach loops of getTracks: one record per track, albums in
\* response order, tracks in album order
SubTracksOf(albums) ==
    Flat([a \in 1..Len(albums) |->
            [t \in 1..Len(albums[a].tracks) |->
                [name      |-> albums[a].tracks[t].name,
                 albumName |-> albums[a].name,
                 uri       |-> albums[a].tracks[t].uri]]])

\* album ids per getAlbums request
BatchSize == 20

\* convertToSubArray (./utils): contiguous chunks of at most BatchSize ids
ConvertToSubArray(arr) ==
    [b \in 1..((Len(arr) + BatchSize - 1) \div BatchSize) |->
        SubSeq(arr, (b - 1) * BatchSize + 1,
               IF b * BatchSize < Len(arr) THEN b * BatchSize ELSE Len(arr))]

-----------------------------------------------------------------------------
(* Inputs and catalog answers *)

N_Song     == <<"S","o","n","g">>
N_song     == <<"s","o","n","g">>
N_LIVE     == <<"L","I","V","E">>
N_Editor   == <<"E","d","i","t","o","r">>
N_Tone     == <<"T","o","n","e">>
N_ReMix    == <<"R","e","M","i","x">>
N_Abba     == <<"A","b","b","a">>
N_Album    == <<"A","l","b","u","m">>
N_AlbumRmx == <<"A","l","b","u","m"," ","(","R","e","m","i","x",")">>
N_AlbumLiv == <<"A","l","b","u","m"," ","L","i","v","e">>
N_B        == <<"B">>
N_C        == <<"C">>

\* album objects a getAlbums response is made of: a name and track names
AlbumLibrary ==
    << [name |-> N_Abba, tracks |-> <<N_Song, N_song, N_LIVE, N_Song>>],
       [name |-> N_LIVE, tracks |-> <<N_Tone, N_ReMix, N_Song, N_Editor>>] >>

\* the body.albums of the response to the k-th getAlbums request: up to
\* MaxRespAlbums album objects; every track carries its own uri
AlbumsResponses(k) ==
    { [a \in 1..Len(sel) |->
        [name   |-> AlbumLibrary[sel[a]].name,
         tracks |-> [t \in 1..Len(AlbumLibrary[sel[a]].tracks) |->
                        [name |-> AlbumLibrary[sel[a]].tracks[t],
                         uri  |-> <<k, a, t>>]]]] :
      sel \in UNION {[1..n -> 1..Len(AlbumLibrary)] : n \in 0..MaxRespAlbums} }

\* lengths of the album-id lists given to getTracks
AlbumCounts ==
    {n \in 0..(MaxBatches * BatchSize) : n % BatchSize \in {0, 1}} \cup {2}

\* the album objects a getArtistAlbums response is made of
ArtistAlbumLibrary ==
    << [id |-> "al1", name |-> N_AlbumRmx],
       [id |-> "al2", name |-> N_Album],
       [id |-> "al3", name |-> N_AlbumLiv],
       [id |-> "al4", name |-> N_B],
       [id |-> "al5", name |-> N_C] >>

\* the request asks for at most this many albums (options.limit)
AlbumsLimit == 10

\* the body.items of a getArtistAlbums response: distinct albums, at most
\* AlbumsLimit of them
ArtistAlbumsResponses ==
    { [i \in 1..Len(sel) |-> ArtistAlbumLibrary[sel[i]]] :
      sel \in { f \in UNION {[1..n -> 1..Len(ArtistAlbumLibrary)] :
                             n \in 0..MaxArtistAlbums} :
                /\ Len(f) <= AlbumsLimit
                /\ \A i, j \in 1..Len(f) : i # j => f[i] # f[j] } }

\* artistsLength arguments of getArtistsAlbums
ArtistCounts == {1, 5, 20, 25, 50, 51}

ArtistNames == {"Queen"}

\* artists arguments of createPlayList
ArtistLabels == {"The Beatles, Queen", "Adele"}

PlaylistTypes == {"new", "old"}

\* the body of a createPlaylist response
PlaylistBodies ==
    { [uri |-> "spotify:playlist:p1",
       external_urls |-> [spotify |-> "https://open.spotify.com/playlist/p1"],
       name |-> "PlayList Generated By HearItFresh"],
      [uri |-> "spotify:playlist:p2",
       external_urls |-> [spotify |-> "https://open.spotify.com/playlist/p2"],
       name |-> "Renamed"] }

PlaylistIds == {"p1", "p2"}

\* tracks arguments of addTracksToPlayList
UriLists == {<<>>, <<"spotify:track:t1">>, <<"spotify:track:t1", "spotify:track:t2">>}

\* tracks arguments of removeTracksFromPlaylists
RemoveLists == {<<>>, <<[uri |-> "spotify:track:t1"]>>}

\* Values of type any that cross the catalog boundary: what the client
\* resolves addTracksToPlaylist with and what a catch clause receives.
\* The functions neither inspect nor wrap them where they return them as
\* they are.  "TypeError" stands for an instance of TypeError.
AnyValue == {"TypeError", "obj1", "obj2"}

\* the bodies of a searchArtists response: no artists member, no item, one item
SearchBodies ==
    { [href |-> "https://api.spotify.com/v1/search"],
      [artists |-> [items |-> <<>>]],
      [artists |-> [items |-> << [id |-> "artist1"] >>]] }

NoResult == [kind |-> "none"]

-----------------------------------------------------------------------------
(* Return values, by the shape the function builds *)

\* return { isError: true, err }
IsErrorResult(err) == [kind |-> "isError", isError |-> TRUE, err |-> err]

\* return err / return _data: the value itself
AnyResult(v) == [kind |-> "any", value |-> v]

\* return of an array
ArrayResult(a) == [kind |-> "array", value |-> a]

\* return true / return false
BooleanResult(b) == [kind |-> "boolean", value |-> b]

\* return { id: data.body.uri, link: data.body.external_urls.spotify, name: data.body.name }
PlaylistDetails(body) ==
    [kind |-> "playlistDetails",
     id   |-> body.uri,
     link |-> body.external_urls.spotify,
     name |-> body.name]

Init ==
    /\ pc = "idle"
    /\ op = "none"
    /\ args = <<>>
    /\ calls = <<>>
    /\ outstanding = 0
    /\ result = NoResult
    /\ rejected = <<>>
    /\ consoleLog = <<>>
    /\ maxAlbums = 0
    /\ subArrays = <<>>
    /\ idx = 0
    /\ tracks = <<>>
    /\ responses = <<>>

\* a catalog request is sent and the function suspends on it
Request(api, params) ==
    /\ calls' = Append(calls, [api |-> api, params |-> params])
    /\ outstanding' = outstanding + 1
    /\ pc' = api

\* the response (or rejection) of the awaited request arrives
Settled(api) ==
    /\ pc = api
    /\ outstanding > 0

\* the function returns v
Return(v) ==
    /\ result' = v
    /\ pc' = "done"

-----------------------------------------------------------------------------
(* getTracks *)

\* were the batch put in front of tracks (unshift) instead of pushed
TracksUnshift(tr, subTracks) == <<subTracks>> \o tr

\* tracks.push(subTracks.flat())
TracksPush(tr, subTracks) == Append(tr, subTracks)

\* the loop, were the requests of two batches sent without awaiting the
\* first (the first answer is then processed as batch i)
GetTracksLoopConcurrent(i, subs, tr, out) ==
    IF i <= Len(subs)
    THEN /\ calls' = calls \o
                 [j \in 1..(IF i < Len(subs) THEN 2 ELSE 1) |->
                     [api |-> "getAlbums", params |-> subs[i + j - 1]]]
         /\ outstanding' = out + (IF i < Len(subs) THEN 2 ELSE 1)
         /\ pc' = "getAlbums"
         /\ idx' = i
         /\ result' = result
    ELSE /\ Return([kind |-> "array", value |-> Flat(tr)])
         /\ outstanding' = out
         /\ calls' = calls
         /\ idx' = i

\* the for..of loop from batch i on, with `tr` collected so far and `out`
\* requests outstanding: the next getAlbums request, or return tracks.flat()
GetTracksLoop(i, subs, tr, out) ==
    IF i <= Len(subs)
    THEN /\ calls' = Append(calls, [api |-> "getAlbums", params |-> subs[i]])
         /\ outstanding' = out + 1
         /\ pc' = "getAlbums"
         /\ idx' = i
         /\ result' = result
    ELSE /\ Return(ArrayResult(Flat(tr)))
         /\ outstanding' = out
         /\ calls' = calls
         /\ idx' = i

GetTracks(albums) ==
    /\ pc = "idle"
    /\ op' = "getTracks"
    /\ args' = [albums |-> albums]
    /\ tracks' = <<>>
    /\ subArrays' = ConvertToSubArray(albums)
    /\ GetTracksLoop(1, ConvertToSubArray(albums), <<>>, outstanding)
    /\ UNCHANGED <<rejected, consoleLog, maxAlbums, responses>>

\* await spotifyApi.getAlbums(subArray) resolves with data.body.albums = albums
GetAlbumsResolve(albums) ==
    /\ Settled("getAlbums")
    /\ responses' = Append(responses, albums)
    /\ tracks' = TracksPush(tracks, FilterTracks(SubTracksOf(albums)))
    /\ GetTracksLoop(idx + 1, subArrays,
                     TracksPush(tracks, FilterTracks(SubTracksOf(albums))),
                     outstanding - 1)
    /\ UNCHANGED <<op, args, rejected, consoleLog, maxAlbums, subArrays>>

\* the catch of getTracks, were it to return what was collected so far
GetAlbumsRejectKeepsPartial(err) ==
    /\ Settled("getAlbums")
    /\ outstanding' = outstanding - 1
    /\ rejected' = Append(rejected, err)
    /\ Return(ArrayResult(Flat(tracks)))
    /\ UNCHANGED <<op, args, calls, consoleLog, maxAlbums, subArrays, idx,
                   tracks, responses>>

\* await spotifyApi.getAlbums(subArray) rejects: catch (err) of getTracks
GetAlbumsReject(err) ==
    /\ Settled("getAlbums")
    /\ outstanding' = outstanding - 1
    /\ rejected' = Append(rejected, err)
    /\ Return(IsErrorResult(err))
    /\ UNCHANGED <<op, args, calls, consoleLog, maxAlbums, subArrays, idx,
                   tracks, responses>>

-----------------------------------------------------------------------------
(* getArtistsAlbums *)

\* maxAlbums, were 20 artists not a case of their own
MaxAlbumsForNoSpecialCase(artistsLength) == 100 \div (artistsLength * 2)

\* maxAlbums, from artistsLength
MaxAlbumsFor(artistsLength) ==
    IF artistsLength = 20 THEN 5 ELSE 100 \div (artistsLength * 2)

\* data.body.items.filter(...): the albums whose title has no blacklisted word
FilterAlbums(items) ==
    SelectSeq(items, LAMBDA album : ~AlbumIsBlacklisted(album.name))

\* .map((item) => item.id)
IdsOf(items) == [i \in 1..Len(items) |-> items[i].id]

\* result.sort(() => Math.random() - 0.5): some rearrangement of the array
SortOutcomes(items) ==
    { [i \in 1..Len(items) |-> items[p[i]]] : p \in Permutations(1..Len(items)) }

\* the values the final if / else may return for the filtered albums
SelectAlbums(filtered, max) ==
    IF max >= Len(filtered)
    THEN { IdsOf(filtered) }
    ELSE { IdsOf(SubSeq(sorted, 1, max)) : sorted \in SortOutcomes(filtered) }

\* _data.body.artists?.items[0].id throws: artists is there, items[0] is not
ArtistIdThrows(body) ==
    /\ "artists" \in DOMAIN body
    /\ Len(body.artists.items) = 0

\* _data.body.artists?.items[0].id: undefined when body has no artists
ArtistIdOf(body) ==
    IF "artists" \in DOMAIN body THEN body.artists.items[1].id ELSE "undefined"

GetArtistsAlbums(artist, artistsLength) ==
    /\ pc = "idle"
    /\ op' = "getArtistsAlbums"
    /\ args' = [artist |-> artist, artistsLength |-> artistsLength]
    /\ maxAlbums' = MaxAlbumsFor(artistsLength)
    /\ Request("searchArtists", <<artist, [limit |-> 1, offset |-> 0]>>)
    /\ UNCHANGED <<result, rejected, consoleLog, subArrays, idx, tracks,
                   responses>>

\* await spotifyApi.searchArtists(...) resolves; artistId is
\* _data.body.artists?.items[0].id, then getArtistAlbums is requested
SearchArtistsResolve(body) ==
    /\ Settled("searchArtists")
    /\ responses' = Append(responses, body)
    /\ IF ArtistIdThrows(body)
       THEN \* reading .id of undefined throws a TypeError: catch (err)
            /\ outstanding' = outstanding - 1
            /\ calls' = calls
            /\ Return(AnyResult("TypeError"))
       ELSE /\ calls' = Append(calls,
                   [api |-> "getArtistAlbums",
                    params |-> <<ArtistIdOf(body),
                                 [limit |-> AlbumsLimit, album_type |-> "album",
                                  include_groups |-> "album"]>>])
            /\ outstanding' = outstanding
            /\ pc' = "getArtistAlbums"
            /\ result' = result
    /\ UNCHANGED <<op, args, rejected, consoleLog, maxAlbums, subArrays, idx,
                   tracks>>

\* await spotifyApi.searchArtists(...) rejects: catch (err) of getArtistsAlbums
SearchArtistsReject(err) ==
    /\ Settled("searchArtists")
    /\ outstanding' = outstanding - 1
    /\ rejected' = Append(rejected, err)
    /\ Return(AnyResult(err))
    /\ UNCHANGED <<op, args, calls, consoleLog, maxAlbums, subArrays, idx,
                   tracks, responses>>

\* await spotifyApi.getArtistAlbums(...) resolves with data.body.items = items
GetArtistAlbumsResolve(items) ==
    /\ Settled("getArtistAlbums")
    /\ outstanding' = outstanding - 1
    /\ responses' = Append(responses, items)
    /\ \E ids \in SelectAlbums(FilterAlbums(items), maxAlbums) :
          Return(ArrayResult(ids))
    /\ UNCHANGED <<op, args, calls, rejected, consoleLog, maxAlbums,
                   subArrays, idx, tracks>>

\* await spotifyApi.getArtistAlbums(...) rejects: catch (err) of getArtistsAlbums
GetArtistAlbumsReject(err) ==
    /\ Settled("getArtistAlbums")
    /\ outstanding' = outstanding - 1
    /\ rejected' = Append(rejected, err)
    /\ Return(AnyResult(err))
    /\ UNCHANGED <<op, args, calls, consoleLog, maxAlbums, subArrays, idx,
                   tracks, responses>>

-----------------------------------------------------------------------------
(* createPlayList *)

PlaylistTitle == "PlayList Generated By HearItFresh"

\* the description, were the "new" template used for every type
DescriptionAlwaysNew(artists, type) == "Listen To Something New From " \o artists

\* the description template chosen by type
Description(artists, type) ==
    IF type = "new" THEN "Listen To Something New From " \o artists
    ELSE IF type = "old"
         THEN "Listen to songs from your favourite artists " \o artists
         ELSE ""

CreatePlayList(artists, type) ==
    /\ pc = "idle"
    /\ op' = "createPlayList"
    /\ args' = [artists |-> artists, type |-> type]
    /\ Request("createPlaylist",
               <<PlaylistTitle,
                 [description |-> Description(artists, type), public |-> TRUE]>>)
    /\ UNCHANGED <<result, rejected, consoleLog, maxAlbums, subArrays, idx,
                   tracks, responses>>

\* await spotifyApi.createPlaylist(...) resolves with data.body = body
CreatePlaylistResolve(body) ==
    /\ Settled("createPlaylist")
    /\ outstanding' = outstanding - 1
    /\ responses' = Append(responses, body)
    /\ Return(PlaylistDetails(body))
    /\ UNCHANGED <<op, args, calls, rejected, consoleLog, maxAlbums,
                   subArrays, idx, tracks>>

\* await spotifyApi.createPlaylist(...) rejects: catch (err) of createPlayList
CreatePlaylistReject(err) ==
    /\ Settled("createPlaylist")
    /\ outstanding' = outstanding - 1
    /\ rejected' = Append(rejected, err)
    /\ Return(IsErrorResult(err))
    /\ UNCHANGED <<op, args, calls, consoleLog, maxAlbums, subArrays, idx,
                   tracks, responses>>

-----------------------------------------------------------------------------
(* addTracksToPlayList *)

AddTracksToPlayList(uris, playListID) ==
    /\ pc = "idle"
    /\ op' = "addTracksToPlayList"
    /\ args' = [tracks |-> uris, playListID |-> playListID]
    /\ Request("addTracksToPlaylist", <<playListID, uris>>)
    /\ UNCHANGED <<result, rejected, consoleLog, maxAlbums, subArrays, idx,
                   tracks, responses>>

\* await spotifyApi.addTracksToPlaylist(...) resolves with _data
AddTracksResolve(data) ==
    /\ Settled("addTracksToPlaylist")
    /\ outstanding' = outstanding - 1
    /\ responses' = Append(responses, data)
    /\ Return(AnyResult(data))
    /\ UNCHANGED <<op, args, calls, rejected, consoleLog, maxAlbums,
                   subArrays, idx, tracks>>

\* await spotifyApi.addTracksToPlaylist(...) rejects: catch (err)
AddTracksReject(err) ==
    /\ Settled("addTracksToPlaylist")
    /\ outstanding' = outstanding - 1
    /\ rejected' = Append(rejected, err)
    /\ Return(AnyResult(err))
    /\ UNCHANGED <<op, args, calls, consoleLog, maxAlbums, subArrays, idx,
                   tracks, responses>>

-----------------------------------------------------------------------------
(* removeTracksFromPlaylists *)

RemoveTracksFromPlaylists(playlistId, uris) ==
    /\ pc = "idle"
    /\ op' = "removeTracksFromPlaylists"
    /\ args' = [playlistId |-> playlistId, tracks |-> uris]
    /\ Request("removeTracksFromPlaylist", <<playlistId, uris>>)
    /\ UNCHANGED <<result, rejected, consoleLog, maxAlbums, subArrays, idx,
                   tracks, responses>>

\* await spotifyApi.removeTracksFromPlaylist(...) resolves
RemoveTracksResolve ==
    /\ Settled("removeTracksFromPlaylist")
    /\ outstanding' = outstanding - 1
    /\ responses' = Append(responses, "ack")
    /\ Return(BooleanResult(TRUE))
    /\ UNCHANGED <<op, args, calls, rejected, consoleLog, maxAlbums,
                   subArrays, idx, tracks>>

\* the catch of removeTracksFromPlaylists, were it to drop the cause unlogged
RemoveTracksRejectSilent(error) ==
    /\ Settled("removeTracksFromPlaylist")
    /\ outstanding' = outstanding - 1
    /\ rejected' = Append(rejected, error)
    /\ Return(BooleanResult(FALSE))
    /\ UNCHANGED <<op, args, calls, consoleLog, maxAlbums, subArrays, idx,
                   tracks, responses>>

\* await spotifyApi.removeTracksFromPlaylist(...) rejects: catch (error)
RemoveTracksReject(error) ==
    /\ Settled("removeTracksFromPlaylist")
    /\ outstanding' = outstanding - 1
    /\ rejected' = Append(rejected, error)
    /\ consoleLog' = Append(consoleLog, error)
    /\ Return(BooleanResult(FALSE))
    /\ UNCHANGED <<op, args, calls, maxAlbums, subArrays, idx, tracks,
                   responses>>

-----------------------------------------------------------------------------

Next ==
    \/ \E n \in AlbumCounts : GetTracks([i \in 1..n |-> i])
    \/ \E albums \in AlbumsResponses(idx) : GetAlbumsResolve(albums)
    \/ \E err \in AnyValue : GetAlbumsReject(err)
    \/ \E artist \in ArtistNames, n \in ArtistCounts : GetArtistsAlbums(artist, n)
    \/ \E body \in SearchBodies : SearchArtistsResolve(body)
    \/ \E err \in AnyValue : SearchArtistsReject(err)
    \/ \E items \in ArtistAlbumsResponses : GetArtistAlbumsResolve(items)
    \/ \E err \in AnyValue : GetArtistAlbumsReject(err)
    \/ \E artists \in ArtistLabels, type \in PlaylistTypes : CreatePlayList(artists, type)
    \/ \E body \in PlaylistBodies : CreatePlaylistResolve(body)
    \/ \E err \in AnyValue : CreatePlaylistReject(err)
    \/ \E uris \in UriLists, id \in PlaylistIds : AddTracksToPlayList(uris, id)
    \/ \E data \in AnyValue : AddTracksResolve(data)
    \/ \E err \in AnyValue : AddTracksReject(err)
    \/ \E id \in PlaylistIds, uris \in RemoveLists : RemoveTracksFromPlaylists(id, uris)
    \/ RemoveTracksResolve
    \/ \E err \in AnyValue : RemoveTracksReject(err)

Spec == Init /\ [][Next]_vars

-----------------------------------------------------------------------------
(* Vocabulary of the properties, stated on the catalog's answers *)

\* the blacklisted substrings, as the documentation lists them
DocumentedBlacklist ==
    { <<"r","e","m","i","x">>, <<"m","i","x">>, <<"e","d","i","t">>,
      <<"r","a","d","i","o">>, <<"-"," ","l","i","v","e">>,
      <<" ","v","e","r",".">>, <<"l","i","v","e","-">>,
      <<"v","e","r","s","i","o","n">>, <<"t","o","u","r">>,
      <<"l","i","v","e">>, <<"e","v","e","n","t">>,
      <<"c","o","n","c","e","r","t">> }

\* lower-case letter |-> the same letter in upper case
CapitalOf ==
    [l \in {LowerCaseLetters[i] : i \in 1..26} |->
        UpperCaseLetters[CHOOSE i \in 1..26 : LowerCaseLetters[i] = l]]

\* character c is the lower-case character l in either letter case
SameLetter(c, l) ==
    \/ c = l
    \/ l \in DOMAIN CapitalOf /\ c = CapitalOf[l]

\* name contains a blacklisted word, in any letter case
ContainsBlacklistedWord(name) ==
    \E w \in DocumentedBlacklist :
        \E i \in 1..(Len(name) - Len(w) + 1) :
            \A j \in 1..Len(w) : SameLetter(name[i + j - 1], w[j])

TracksRun     == op = "getTracks"
TracksFailed  == op = "getTracks" /\ rejected # <<>>
TracksSuccess == op = "getTracks" /\ pc = "done" /\ rejected = <<>>

\* the places <<batch, album, track>> of the tracks of batch k's response
Positions(k) ==
    UNION { { <<k, a, t>> : t \in 1..Len(responses[k][a].tracks) } :
            a \in 1..Len(responses[k]) }

AllPositions == UNION { Positions(k) : k \in 1..Len(responses) }

NameAt(p) == responses[p[1]][p[2]].tracks[p[3]].name

\* the track record the catalog's answer holds at place p
InputTrack(p) ==
    [name      |-> NameAt(p),
     albumName |-> responses[p[1]][p[2]].name,
     uri       |-> responses[p[1]][p[2]].tracks[p[3]].uri]

\* place p comes before place q in the flattened input
Before(p, q) ==
    \/ p[1] < q[1]
    \/ p[1] = q[1] /\ p[2] < q[2]
    \/ p[1] = q[1] /\ p[2] = q[2] /\ p[3] < q[3]

\* the earliest place of batch p[1] holding the name at p
FirstWithName(p) ==
    CHOOSE q \in Positions(p[1]) :
        /\ NameAt(q) = NameAt(p)
        /\ \A r \in Positions(p[1]) : NameAt(r) = NameAt(p) => (r = q \/ Before(q, r))

\* the indices of sequence s whose track has this name
IndicesNamed(s, name) == { i \in 1..Len(s) : s[i].name = name }

\* the smallest c with c * BatchSize >= n
CeilBatches(n) == CHOOSE c \in 0..n : c * 20 >= n /\ (c = 0 \/ (c - 1) * 20 < n)

AlbumsSuccess ==
    op = "getArtistsAlbums" /\ pc = "done" /\ Len(responses) = 2

\* the ids of the albums of a getArtistAlbums answer that hold no blacklisted word
SurvivingIds(items) ==
    { items[j].id : j \in { i \in 1..Len(items) : ~ContainsBlacklistedWord(items[i].name) } }

\* 5 for 20 artists, floor(100 / (2 * totalArtists)) otherwise
Quota(totalArtists) ==
    IF totalArtists = 20 THEN 5
    ELSE CHOOSE q \in 0..100 :
            q * 2 * totalArtists <= 100 /\ (q + 1) * 2 * totalArtists > 100

Min(a, b) == IF a <= b THEN a ELSE b

\* a searchArtists answer without a match: artists.items is empty
NoMatch(body) ==
    /\ "artists" \in DOMAIN body
    /\ body.artists.items = <<>>

-----------------------------------------------------------------------------
(* Properties *)

\* C1: when the getAlbums request of batch k is rejected, getTracks returns
\* the error value { isError: true, err } and none of the tracks collected
\* from batches 1..k-1; the rejected request is the last one it sends.
C1_FailureDiscardsPartialResults ==
    TracksFailed =>
        /\ pc = "done"
        /\ result = [kind |-> "isError", isError |-> TRUE, err |-> rejected[1]]
        /\ Len(calls) = Len(responses) + 1
        /\ outstanding = 0

\* a later batch fails after an earlier one delivered tracks
C1_Witness ==
    /\ TracksFailed
    /\ Len(responses) >= 1
    /\ \E k \in 1..Len(tracks) : tracks[k] # <<>>

\* C2: deduplication is first-occurrence, exact-name and per batch: every
\* name among a batch's non-blacklisted tracks appears exactly once in that
\* batch's output, as the earliest track of the batch with that name (so names
\* differing only in letter case both stay); in the final result two tracks
\* of equal name come from different batches, one per batch holding the name.
C2_DedupFirstOccurrencePerBatch ==
    TracksRun =>
        /\ Len(tracks) = Len(responses)
        /\ \A k \in 1..Len(tracks) : \A p \in Positions(k) :
              ~ContainsBlacklistedWord(NameAt(p)) =>
                  /\ Cardinality(IndicesNamed(tracks[k], NameAt(p))) = 1
                  /\ \A i \in IndicesNamed(tracks[k], NameAt(p)) :
                        tracks[k][i].uri = InputTrack(FirstWithName(p)).uri
        /\ TracksSuccess =>
              /\ \A i, j \in 1..Len(result.value) :
                    (i # j /\ result.value[i].name = result.value[j].name)
                        => result.value[i].uri[1] # result.value[j].uri[1]
              /\ \A p \in AllPositions :
                    ~ContainsBlacklistedWord(NameAt(p)) =>
                        Cardinality({ i \in IndicesNamed(result.value, NameAt(p)) :
                                        result.value[i].uri[1] = p[1] }) = 1

\* one batch holds "Song" twice and "song"; another batch holds "Song" too
C2_Witness ==
    /\ TracksSuccess
    /\ Len(responses) = 2
    /\ \E p, q, r \in Positions(1) :
          /\ p # q
          /\ NameAt(p) = N_Song /\ NameAt(q) = N_Song /\ NameAt(r) = N_song
    /\ \E p \in Positions(2) : NameAt(p) = N_Song
    /\ Cardinality(IndicesNamed(result.value, N_Song)) = 2
    /\ Cardinality(IndicesNamed(result.value, N_song)) = 1

\* C3: on success the result is an order-preserving subsequence of the
\* flattened input (batches in order, albums in response order, tracks in
\* album order): every returned track is an input track with its name,
\* albumName and uri unchanged, and the returned tracks are in input order
\* without repetition.
C3_ResultIsSubsequenceOfInput ==
    TracksSuccess =>
        /\ \A i \in 1..Len(result.value) :
              /\ result.value[i].uri \in AllPositions
              /\ result.value[i] = InputTrack(result.value[i].uri)
        /\ \A i, j \in 1..Len(result.value) :
              i < j => Before(result.value[i].uri, result.value[j].uri)

\* tracks of two batches and of two albums of one batch are returned, and
\* some track was removed
C3_Witness ==
    /\ TracksSuccess
    /\ \E i, j \in 1..Len(result.value) :
          result.value[i].uri[1] = 1 /\ result.value[j].uri[1] = 2
    /\ \E i, j \in 1..Len(result.value) :
          /\ result.value[i].uri[1] = result.value[j].uri[1]
          /\ result.value[i].uri[2] # result.value[j].uri[2]
    /\ Len(result.value) < Cardinality(AllPositions)

\* C10: getTracks sends its getAlbums requests one at a time and in batch
\* order: at most one is outstanding, every request before the last has been
\* answered, the i-th request carries the i-th run of 20 album ids, and a
\* successful run over n ids has sent exactly ceil(n / 20) requests (one for
\* 2 ids; none, and an empty result, for no ids).
C10_SequentialBatchCalls ==
    TracksRun =>
        /\ outstanding <= 1
        /\ Len(calls) = Len(responses) + Len(rejected) + outstanding
        /\ \A i \in 1..Len(calls) :
              /\ calls[i].api = "getAlbums"
              /\ (i - 1) * 20 < Len(args.albums)
              /\ calls[i].params =
                    [j \in 1..(IF i * 20 <= Len(args.albums)
                               THEN 20 ELSE Len(args.albums) - (i - 1) * 20) |->
                        args.albums[(i - 1) * 20 + j]]
        /\ TracksSuccess =>
              /\ Len(calls) = CeilBatches(Len(args.albums))
              /\ (Len(args.albums) = 2 => Len(calls) = 1)
              /\ (Len(args.albums) = 0 => (calls = <<>> /\ result.value = <<>>))

\* a successful run over 40 ids: two requests, the second after the first
C10_Witness ==
    /\ TracksSuccess
    /\ Len(args.albums) = 40
    /\ Len(calls) = 2
    /\ Len(responses) = 2

\* C4: keyword exclusion is a case-insensitive substring test, the same for
\* album titles and track names: no returned track and no returned album id
\* belongs to a name holding a blacklisted word in any letter case; a track
\* is left out only if its name holds one or repeats an earlier name of its
\* batch, and an album is left out only if its title holds one or the quota
\* is exhausted.
C4_KeywordExclusion ==
    /\ TracksRun =>
          \A k \in 1..Len(tracks) :
              /\ k <= Len(responses)
              /\ \A i \in 1..Len(tracks[k]) :
                    ~ContainsBlacklistedWord(tracks[k][i].name)
              /\ \A p \in Positions(k) :
                    (\A i \in 1..Len(tracks[k]) : tracks[k][i].uri # InputTrack(p).uri)
                        => \/ ContainsBlacklistedWord(NameAt(p))
                           \/ \E q \in Positions(k) :
                                 Before(q, p) /\ NameAt(q) = NameAt(p)
    /\ TracksSuccess =>
          \A i \in 1..Len(result.value) :
              ~ContainsBlacklistedWord(result.value[i].name)
    /\ AlbumsSuccess =>
          /\ \A i \in 1..Len(result.value) :
                result.value[i] \in SurvivingIds(responses[2])
          /\ Len(result.value) =
                Min(Quota(args.artistsLength),
                    Cardinality(SurvivingIds(responses[2])))

\* a track named in upper case with a blacklisted word is left out, a clean
\* one of the same batch is returned
C4_Witness ==
    /\ TracksSuccess
    /\ \E p \in AllPositions : NameAt(p) = N_LIVE
    /\ \E p \in AllPositions : NameAt(p) = N_ReMix
    /\ \E i \in 1..Len(result.value) : result.value[i].name = N_Tone

C6_ArtistNotFoundIsDedicated ==
    (op = "getArtistsAlbums" /\ Len(responses) >= 1 /\ NoMatch(responses[1])) =>
        /\ \A i \in 1..Len(calls) : calls[i].api # "getArtistAlbums"
        /\ pc = "done"
        /\ result.kind # "array"
        /\ result.kind = "any" => result.value \notin AnyValue

\* C7: in createPlayList, addTracksToPlayList, getArtistsAlbums and getTracks
\* a rejected catalog call ends the function with a returned value that is
\* none of the values the function returns on success.
C7_FailuresAreTypedValues ==
    (rejected # <<>> /\ op # "removeTracksFromPlaylists") =>
        /\ pc = "done"
        /\ result.kind # "none"
        /\ op = "createPlayList" => result.kind # "playlistDetails"
        /\ op = "getTracks" => result.kind # "array"
        /\ op = "getArtistsAlbums" => result.kind # "array"
        /\ op = "addTracksToPlayList" =>
              ~(result.kind = "any" /\ result.value \in AnyValue)

\* C8: removeTracksFromPlaylists sends exactly one removeTracksFromPlaylist
\* request and returns a boolean: true exactly when the request succeeded;
\* when it was rejected the cause is on the console log as false is returned.
C8_RemoveTracksNeverRaises ==
    op = "removeTracksFromPlaylists" =>
        /\ calls = << [api |-> "removeTracksFromPlaylist",
                       params |-> <<args.playlistId, args.tracks>>] >>
        /\ pc = "done" =>
              /\ result.kind = "boolean"
              /\ (result.value = TRUE) <=> (rejected = <<>>)
              /\ (result.value = FALSE) <=> (consoleLog = rejected /\ Len(rejected) = 1)
        /\ pc # "done" => (consoleLog = <<>> /\ result.kind = "none")

\* the catalog rejects the removal
C8_Witness ==
    /\ op = "removeTracksFromPlaylists"
    /\ pc = "done"
    /\ rejected # <<>>
    /\ result = [kind |-> "boolean", value |-> FALSE]
    /\ consoleLog # <<>>

\* C9: createPlayList sends exactly one createPlaylist request, titled
\* "PlayList Generated By HearItFresh", public, described by the template of
\* its type; on success it returns the id, link and name of the response.
C9_CreatePlaylistRequest ==
    op = "createPlayList" =>
        /\ Len(calls) = 1
        /\ calls[1].api = "createPlaylist"
        /\ calls[1].params[1] = "PlayList Generated By HearItFresh"
        /\ calls[1].params[2].public = TRUE
        /\ args.type = "new" =>
              calls[1].params[2].description =
                  "Listen To Something New From " \o args.artists
        /\ args.type = "old" =>
              calls[1].params[2].description =
                  "Listen to songs from your favourite artists " \o args.artists
        /\ (args.type = "new" /\ args.artists = "The Beatles, Queen") =>
              calls[1].params[2].description =
                  "Listen To Something New From The Beatles, Queen"
        /\ (pc = "done" /\ rejected = <<>>) =>
              result = [kind |-> "playlistDetails",
                        id   |-> responses[1].uri,
                        link |-> responses[1].external_urls.spotify,
                        name |-> responses[1].name]

\* an "old" playlist is created and the catalog names it differently
C9_Witness ==
    /\ op = "createPlayList"
    /\ pc = "done"
    /\ rejected = <<>>
    /\ args.type = "old"
    /\ result.kind = "playlistDetails"
    /\ result.name = "Renamed"

====
